---- MODULE Spec2Model ----
(***************************************************************************)
(* Account-erasure worker (src/worker.ts).  The file holds two revisions   *)
(* of the worker: the first handler (lines 10-226) answers with a plain    *)
(* text body, the second handler (lines 245-407) answers with a per-step   *)
(* report.  Both are modelled, request by request, against one relational  *)
(* store, one object bucket and one identity provider.                     *)
(***************************************************************************)
EXTENDS Integers, Sequences, FiniteSets, TLC

(* ------------------------------ bounds --------------------------------- *)
\* keys returned by one bucket.list() call (R2 truncates a listing)
PageSize == 2
\* backend calls that may fail (returned error or thrown) in one behaviour
MaxFaults == 2

(* ------------------------------ strings -------------------------------- *)
\* strings that the code case-folds are sequences of characters
LowerChar(c) ==
  CASE c = "A" -> "a"
    [] c = "B" -> "b"
    [] c = "C" -> "c"
    [] c = "D" -> "d"
    [] OTHER -> c

\* String.prototype.toLowerCase()
ToLower(s) == [i \in DOMAIN s |-> LowerChar(s[i])]

IdA == <<"a", "b">>
IdC == <<"c", "d">>
NoId == <<>>

\* ids held by the identity provider (canonical, lower case)
UserIds == {IdA, IdC}

\* bearer tokens and the identity each one was issued for
Tokens == {"tA", "tC", "tX"}
TokenOwner(tok) ==
  CASE tok = "tA" -> IdA
    [] tok = "tC" -> IdC
    [] OTHER -> NoId

(* ------------------------------ requests ------------------------------- *)
Reqs == {1, 2}
Methods == {"POST", "GET"}

\* Authorization header: absent, another scheme, or 'Bearer <tok>'
Headers ==
  {[k |-> "missing", tok |-> ""], [k |-> "basic", tok |-> ""]}
    \cup {[k |-> "bearer", tok |-> t] : t \in Tokens}

\* request body: not JSON, JSON without user_id, or JSON with a string user_id
BodyStrings == {NoId, IdA, <<"A", "b">>, IdC}
Bodies ==
  {[k |-> "malformed", s |-> NoId], [k |-> "nofield", s |-> NoId]}
    \cup {[k |-> "str", s |-> s] : s \in BodyStrings}

NoInput == [ver |-> 0, method |-> "", hdr |-> [k |-> "missing", tok |-> ""],
            body |-> [k |-> "malformed", s |-> NoId]]

(* ------------------------------ backends ------------------------------- *)
Tables == {"replicate_predictions", "replicate_trainings", "push_tokens",
           "user_credits", "transactions"}

\* object keys are '<dir>/<n>.png' (mask 0) or '<dir>/<n>_mask.png' (mask 1)
Key(dir, n, mask) == <<dir, n, mask>>
NoKey == Key(NoId, 0, 0)
IdP == <<"p">>
DirRank(d) == IF d = IdA THEN 1 ELSE IF d = IdC THEN 2 ELSE 3
\* lexicographic order of the key strings
KeyLess(a, b) ==
  \/ DirRank(a[1]) < DirRank(b[1])
  \/ a[1] = b[1] /\ a[2] < b[2]
  \/ a[1] = b[1] /\ a[2] = b[2] /\ a[3] < b[3]

\* the objects of user A overflow one listing page; 'p/1.png' lies outside
\* every user's folder
KeysOfA == {Key(IdA, n, 0) : n \in 1..(PageSize + 1)}
OtherKeys == {Key(IdC, 1, 0), Key(IdP, 1, 0)}

\* keys that start with `${user_id}/`
UnderPrefix(objs, id) == {k \in objs : k[1] = id}

\* R2Bucket.list({prefix}): the first page of the listing, in key order
ListPage(objs, id) ==
  {k \in UnderPrefix(objs, id) :
     Cardinality({j \in UnderPrefix(objs, id) : KeyLess(j, k)}) < PageSize}

\* asset references stored on rows: null, a bare path, or an absolute URL
Url(k, key) == [k |-> k, host |-> IF k = "abs" THEN "cdn" ELSE "", path |-> key]
NullUrl == Url("null", NoKey)

\* new URL(url) accepts absolute URLs only (line 208)
Parses(url) == url.k = "abs"
\* new URL(url).pathname.slice(1)
ObjectKey(url) == url.path
\* url.replace(/\.[^/.]+$/, "") + "_mask.png" (line 103)
MaskUrl(url) == [url EXCEPT !.path = Key(@[1], @[2], @[3] + 1)]

Row(id, owner, input, outputs) ==
  [id |-> id, user_id |-> owner, input |-> input, outputs |-> outputs]
PlainRows == {Row(1, IdA, NullUrl, <<>>), Row(2, IdC, NullUrl, <<>>)}
AssetRowC == Row(2, IdC, Url("abs", Key(IdC, 1, 0)), <<>>)

\* the prediction row of user A: assets in the folder and outside it, no
\* input asset, or an input stored as a bare path
PredictionsOfA ==
  {Row(1, IdA, Url("abs", Key(IdA, 1, 0)), <<Url("abs", Key(IdP, 1, 0))>>),
   Row(1, IdA, NullUrl, <<Url("abs", Key(IdA, 2, 0))>>),
   Row(1, IdA, Url("rel", Key(IdA, 1, 0)), <<>>)}
\* the training row of user A
TrainingsOfA ==
  {Row(1, IdA, Url("abs", Key(IdA, 2, 0)), <<>>), Row(1, IdA, NullUrl, <<>>)}

VARIABLES
  rows,      \* table -> rows of the table
  objects,   \* keys in the bucket
  users,     \* live identities of the identity provider
  pc,        \* request -> position in the handler
  inp,       \* request -> the request as received
  user,      \* request -> id of the verified identity
  uid,       \* request -> argument of deleteUserData
  pending,   \* request -> selected rows not yet processed (first pipeline)
  listed,    \* request -> keys returned by bucket.list
  report,    \* request -> results object of deleteUserData
  status,    \* request -> HTTP status of the response (0: none yet)
  calls,     \* request -> backend calls issued, in order
  seq,       \* request -> arrival number
  faults     \* backend failures so far

vars == <<rows, objects, users, pc, inp, user, uid, pending, listed, report,
          status, calls, seq, faults>>

\* one backend call and how it ended: "ok", "error" (returned) or "throw"
Call(op, tbl, id, key, res) ==
  [op |-> op, tbl |-> tbl, id |-> id, key |-> key, row |-> 0, res |-> res]
CallRow(op, tbl, row, res) ==
  [op |-> op, tbl |-> tbl, id |-> NoId, key |-> NoKey, row |-> row, res |-> res]

\* outcomes of one backend call
Outcomes == IF faults < MaxFaults THEN {"ok", "error", "throw"} ELSE {"ok"}
Cost(o) == IF o = "ok" THEN 0 ELSE 1

\* the backends and the idle handlers
InitState ==
  /\ \E p \in PredictionsOfA, t \in TrainingsOfA :
       rows = [tbl \in Tables |->
                 IF tbl = "replicate_predictions" THEN {p, AssetRowC}
                 ELSE IF tbl = "replicate_trainings" THEN {t, AssetRowC}
                 ELSE PlainRows]
  /\ objects \in {KeysOfA \cup {Key(IdA, 1, 1)} \cup OtherKeys,
                  {Key(IdA, 1, 0)} \cup OtherKeys,
                  OtherKeys}
  /\ users = UserIds
  /\ pc = [r \in Reqs |-> "idle"]
  /\ inp = [r \in Reqs |-> NoInput]
  /\ user = [r \in Reqs |-> NoId]
  /\ uid = [r \in Reqs |-> NoId]
  /\ pending = [r \in Reqs |-> <<>>]
  /\ listed = [r \in Reqs |-> {}]
  /\ report = [r \in Reqs |-> <<>>]
  /\ status = [r \in Reqs |-> 0]
  /\ calls = [r \in Reqs |-> <<>>]
  /\ seq = [r \in Reqs |-> 0]

Init == InitState /\ faults = 0

\* the same start with backends that never fail
InitReliable == InitState /\ faults = MaxFaults

\* a response is sent: the handler is finished
Respond(r, code) ==
  /\ status' = [status EXCEPT ![r] = code]
  /\ pc' = [pc EXCEPT ![r] = "done"]

Goto(r, label) ==
  /\ pc' = [pc EXCEPT ![r] = label]
  /\ UNCHANGED status

Log(r, c) == calls' = [calls EXCEPT ![r] = Append(@, c)]

\* requests are served one after the other; the second one is the client
\* sending its first request again
MayStart(r) ==
  /\ pc[r] = "idle"
  /\ \A q \in Reqs \ {r} : pc[q] \in {"idle", "done"}
  /\ \A q \in Reqs : q < r => pc[q] = "done"

\* requests may overlap: the re-sent request arrives at any time after the
\* first one
MayOverlap(r) ==
  /\ pc[r] = "idle"
  /\ \A q \in Reqs : q < r => pc[q] # "idle"

Inputs(r, ver) ==
  IF r = 1
  THEN {[ver |-> ver, method |-> m, hdr |-> h, body |-> b] :
          m \in Methods, h \in Headers, b \in Bodies}
  ELSE {i \in {inp[1]} : i.ver = ver}

Arrive(r, i) ==
  /\ inp' = [inp EXCEPT ![r] = i]
  /\ seq' = [seq EXCEPT ![r] = Cardinality({q \in Reqs : pc[q] = "done"}) + 1]

\* mutant: the method guard lets every method through
MethodAllowedAny(m) == TRUE

\* request.method !== 'POST' (lines 14 and 249)
MethodAllowed(m) == m = "POST"

\* authHeader.startsWith('Bearer ') on a present header (lines 20 and 257)
HasBearer(h) == h.k = "bearer"

\* line 45: !user_id || user_id.toLowerCase() !== user.id.toLowerCase()
IdMatches1(s, id) == s # NoId /\ ToLower(s) = ToLower(id)

\* mutant: the ids are compared without case folding
IdMatchesExact(s, id) == s = id

\* line 292: user_id.toLowerCase() !== user.id.toLowerCase()
IdMatches2(s, id) == ToLower(s) = ToLower(id)

(* ---------------- second handler: fetch, lines 246-318 ----------------- *)
\* lines 249-265: method guard, header check, request.json()
Fetch2Entry(r) ==
  /\ pc[r] = "idle"
  /\ \E i \in Inputs(r, 2) :
       /\ Arrive(r, i)
       /\ IF ~MethodAllowed(i.method) THEN Respond(r, 405)
          ELSE IF ~HasBearer(i.hdr) THEN Respond(r, 401)
          ELSE IF i.body.k = "malformed" THEN Respond(r, 500)
          ELSE Goto(r, "getUser2")
  /\ UNCHANGED <<rows, objects, users, user, uid, pending, listed, report, calls, faults>>

Fetch2Start(r) == MayStart(r) /\ Fetch2Entry(r)

Fetch2StartOverlap(r) == MayOverlap(r) /\ Fetch2Entry(r)

\* mutant: the pipeline is handed the id as the body spelled it
Fetch2GetUserRawId(r) ==
  /\ pc[r] = "getUser2"
  /\ \E o \in Outcomes :
       /\ faults' = faults + Cost(o)
       /\ LET owner == TokenOwner(inp[r].hdr.tok)
              live == owner \in users
          IN /\ Log(r, Call("getUser", "", NoId, NoKey,
                            IF o = "ok" /\ ~live THEN "error" ELSE o))
             /\ IF o = "throw" THEN Respond(r, 500) /\ UNCHANGED <<user, uid>>
                ELSE IF o = "error" \/ ~live
                THEN Respond(r, 401) /\ UNCHANGED <<user, uid>>
                ELSE /\ user' = [user EXCEPT ![r] = owner]
                     /\ IF inp[r].body.k = "nofield"
                        THEN Respond(r, 500) /\ UNCHANGED uid
                        ELSE IF ~IdMatches2(inp[r].body.s, owner)
                        THEN Respond(r, 403) /\ UNCHANGED uid
                        ELSE /\ uid' = [uid EXCEPT ![r] = inp[r].body.s]
                             /\ Goto(r, "predictions2")
  /\ UNCHANGED <<rows, objects, users, inp, pending, listed, report, seq>>

\* lines 268-298: supabase.auth.getUser(token), then the id comparison;
\* user_id.toLowerCase() on a body without user_id is a TypeError (line 292)
Fetch2GetUser(r) ==
  /\ pc[r] = "getUser2"
  /\ \E o \in Outcomes :
       /\ faults' = faults + Cost(o)
       /\ LET owner == TokenOwner(inp[r].hdr.tok)
              live == owner \in users
          IN /\ Log(r, Call("getUser", "", NoId, NoKey,
                            IF o = "ok" /\ ~live THEN "error" ELSE o))
             /\ IF o = "throw" THEN Respond(r, 500) /\ UNCHANGED <<user, uid>>
                ELSE IF o = "error" \/ ~live
                THEN Respond(r, 401) /\ UNCHANGED <<user, uid>>
                ELSE /\ user' = [user EXCEPT ![r] = owner]
                     /\ IF inp[r].body.k = "nofield"
                        THEN Respond(r, 500) /\ UNCHANGED uid
                        ELSE IF ~IdMatches2(inp[r].body.s, owner)
                        THEN Respond(r, 403) /\ UNCHANGED uid
                        ELSE /\ uid' = [uid EXCEPT ![r] = ToLower(inp[r].body.s)]
                             /\ Goto(r, "predictions2")
  /\ UNCHANGED <<rows, objects, users, inp, pending, listed, report, seq>>

(* ------------- second pipeline: deleteUserData, lines 320-407 ---------- *)
\* mutant: the delete has no filter
DeleteWhereAll(tbl, id) == [rows EXCEPT ![tbl] = {}]

\* supabase.from(table).delete().eq('user_id', id)
DeleteWhere(tbl, id) == [rows EXCEPT ![tbl] = {w \in @ : w.user_id # id}]

\* mutant: recording a step replaces the report
SetStepOverwrite(r, step, val) == report' = [report EXCEPT ![r] = (step :> val)]

\* results.<step> = <value>
SetStep(r, step, val) == report' = [report EXCEPT ![r] = (step :> val) @@ @]

\* lines 403-406: the catch around the whole pipeline; line 302: the response
ProcessFailed(r) ==
  /\ report' = [report EXCEPT ![r] = ("error" :> "Process failed") @@ @]
  /\ Respond(r, 200)

\* mutant: a returned error is not looked at
StepResultIgnored(o) == "success"

\* <error> ? 'error' : 'success' (lines 336, 346, 356, 366, 374, 397)
StepResult(o) == IF o = "error" THEN "error" ELSE "success"

\* one relational step of lines 331-375
RelationalStep(r, here, tbl, step, next) ==
  /\ pc[r] = here
  /\ \E o \in Outcomes :
       /\ Log(r, Call("dbDelete", tbl, uid[r], NoKey, o))
       /\ faults' = faults + Cost(o)
       /\ rows' = IF o = "ok" THEN DeleteWhere(tbl, uid[r]) ELSE rows
       /\ IF o = "throw" THEN ProcessFailed(r)
          ELSE /\ SetStep(r, step, StepResult(o))
               /\ Goto(r, next)
  /\ UNCHANGED <<objects, users, inp, user, uid, pending, listed, seq>>

Del2Predictions(r) ==
  /\ pc[r] = "predictions2"
  /\ RelationalStep(r, "predictions2", "replicate_predictions", "predictions", "trainings2")

Del2Trainings(r) ==
  /\ pc[r] = "trainings2"
  /\ RelationalStep(r, "trainings2", "replicate_trainings", "trainings", "pushToken2")

Del2PushToken(r) ==
  /\ pc[r] = "pushToken2"
  /\ RelationalStep(r, "pushToken2", "push_tokens", "pushToken", "credits2")

Del2Credits(r) ==
  /\ pc[r] = "credits2"
  /\ RelationalStep(r, "credits2", "user_credits", "credits", "transactions2")

\* mutant: the pipeline goes from the last table straight to the identity
Del2TransactionsThenAuth(r) ==
  /\ pc[r] = "transactions2"
  /\ RelationalStep(r, "transactions2", "transactions", "transactions", "auth2")

Del2Transactions(r) ==
  /\ pc[r] = "transactions2"
  /\ RelationalStep(r, "transactions2", "transactions", "transactions", "r2List2")

\* mutant: a failed listing is swallowed and the delete runs on whatever
\* keys the listing had produced
Del2ListSwallowsFailure(r) ==
  /\ pc[r] = "r2List2"
  /\ \E o \in Outcomes \ {"error"} :
       /\ Log(r, Call("list", "", uid[r], NoKey, o))
       /\ faults' = faults + Cost(o)
       /\ LET page == ListPage(objects, uid[r])
          IN /\ listed' = [listed EXCEPT ![r] = page]
             /\ IF page = {} /\ o = "ok"
                THEN SetStep(r, "r2Folder", "no files found") /\ Goto(r, "auth2")
                ELSE UNCHANGED report /\ Goto(r, "r2Delete2")
  /\ UNCHANGED <<rows, objects, users, inp, user, uid, pending, seq>>

\* mutant: an empty listing is handled like a listing with keys
Del2ListNoEmptyCase(r) ==
  /\ pc[r] = "r2List2"
  /\ \E o \in Outcomes \ {"error"} :
       /\ Log(r, Call("list", "", uid[r], NoKey, o))
       /\ faults' = faults + Cost(o)
       /\ IF o = "throw"
          THEN /\ SetStep(r, "r2Folder", "error")
               /\ Goto(r, "auth2")
               /\ UNCHANGED listed
          ELSE /\ listed' = [listed EXCEPT ![r] = ListPage(objects, uid[r])]
               /\ UNCHANGED report
               /\ Goto(r, "r2Delete2")
  /\ UNCHANGED <<rows, objects, users, inp, user, uid, pending, seq>>

\* lines 379-381, 385-392: env.BUCKET.list({prefix}); a failure is thrown
Del2List(r) ==
  /\ pc[r] = "r2List2"
  /\ \E o \in Outcomes \ {"error"} :
       /\ Log(r, Call("list", "", uid[r], NoKey, o))
       /\ faults' = faults + Cost(o)
       /\ IF o = "throw"
          THEN /\ SetStep(r, "r2Folder", "error")
               /\ Goto(r, "auth2")
               /\ UNCHANGED listed
          ELSE LET page == ListPage(objects, uid[r])
               IN /\ listed' = [listed EXCEPT ![r] = page]
                  /\ IF page = {}
                     THEN SetStep(r, "r2Folder", "no files found") /\ Goto(r, "auth2")
                     ELSE UNCHANGED report /\ Goto(r, "r2Delete2")
  /\ UNCHANGED <<rows, objects, users, inp, user, uid, pending, seq>>

\* one delete call per key, in key order; the deletes of `failed` throw
RECURSIVE KeySeq(_, _)
KeySeq(ks, failed) ==
  IF ks = {} THEN <<>>
  ELSE LET k == CHOOSE x \in ks : \A y \in ks \ {x} : KeyLess(x, y)
       IN <<Call("objDelete", "", NoId, k, IF k \in failed THEN "throw" ELSE "ok")>>
            \o KeySeq(ks \ {k}, failed)

\* lines 382-384, 389-392: Promise.all over one delete per listed key;
\* the deletes in `failed` reject
Del2Objects(r) ==
  /\ pc[r] = "r2Delete2"
  /\ \E failed \in SUBSET listed[r] :
       /\ calls' = [calls EXCEPT ![r] = @ \o KeySeq(listed[r], failed)]
       /\ failed # {} => faults < MaxFaults
       /\ faults' = faults + (IF failed = {} THEN 0 ELSE 1)
       /\ objects' = objects \ (listed[r] \ failed)
       /\ SetStep(r, "r2Folder", IF failed = {} THEN "success" ELSE "error")
  /\ Goto(r, "auth2")
  /\ UNCHANGED <<rows, users, inp, user, uid, pending, listed, seq>>

\* the identity provider answers 'user not found' for an id it does not hold
DeleteUserResult(o, id) == IF o = "ok" /\ id \notin users THEN "error" ELSE o

\* lines 396-401: supabase.auth.admin.deleteUser(user_id)
Del2Auth(r) ==
  /\ pc[r] = "auth2"
  /\ \E o \in Outcomes :
       /\ Log(r, Call("deleteUser", "", uid[r], NoKey, DeleteUserResult(o, uid[r])))
       /\ faults' = faults + Cost(o)
       /\ users' = IF o = "ok" THEN users \ {uid[r]} ELSE users
       /\ IF o = "throw" THEN ProcessFailed(r)
          ELSE /\ SetStep(r, "auth", StepResult(DeleteUserResult(o, uid[r])))
               /\ Respond(r, 200)
  /\ UNCHANGED <<rows, objects, inp, user, uid, pending, listed, seq>>

(* ---------------- first handler: fetch, lines 11-60 --------------------- *)
\* lines 14-23: method guard, header check
Fetch1Entry(r) ==
  /\ pc[r] = "idle"
  /\ \E i \in Inputs(r, 1) :
       /\ Arrive(r, i)
       /\ IF ~MethodAllowed(i.method) THEN Respond(r, 405)
          ELSE IF ~HasBearer(i.hdr) THEN Respond(r, 401)
          ELSE Goto(r, "getUser1")
  /\ UNCHANGED <<rows, objects, users, user, uid, pending, listed, report, calls, faults>>

Fetch1Start(r) == MayStart(r) /\ Fetch1Entry(r)

Fetch1StartOverlap(r) == MayOverlap(r) /\ Fetch1Entry(r)

\* lines 33-50: supabase.auth.getUser(token), request.json(), the id
\* comparison; an exception here leaves fetch uncaught (runtime answers 500)
Fetch1GetUser(r) ==
  /\ pc[r] = "getUser1"
  /\ \E o \in Outcomes :
       /\ faults' = faults + Cost(o)
       /\ LET owner == TokenOwner(inp[r].hdr.tok)
              live == owner \in users
          IN /\ Log(r, Call("getUser", "", NoId, NoKey,
                            IF o = "ok" /\ ~live THEN "error" ELSE o))
             /\ IF o = "throw" THEN Respond(r, 500) /\ UNCHANGED <<user, uid>>
                ELSE IF o = "error" \/ ~live
                THEN Respond(r, 401) /\ UNCHANGED <<user, uid>>
                ELSE /\ user' = [user EXCEPT ![r] = owner]
                     /\ IF inp[r].body.k = "malformed"
                        THEN Respond(r, 500) /\ UNCHANGED uid
                        ELSE IF inp[r].body.k = "nofield" \/ ~IdMatches1(inp[r].body.s, owner)
                        THEN Respond(r, 403) /\ UNCHANGED uid
                        ELSE /\ uid' = [uid EXCEPT ![r] = ToLower(inp[r].body.s)]
                             /\ Goto(r, "selPredictions1")
  /\ UNCHANGED <<rows, objects, users, inp, pending, listed, report, seq>>

(* ------------- first pipeline: deleteUserData, lines 63-226 ------------ *)
\* rows in id order
RECURSIVE RowSeq(_)
RowSeq(ws) ==
  IF ws = {} THEN <<>>
  ELSE LET w == CHOOSE x \in ws : \A y \in ws : x.id <= y.id
       IN <<w>> \o RowSeq(ws \ {w})

\* supabase.from(table).select(...).eq('user_id', id)
SelectWhere(tbl, id) == RowSeq({w \in rows[tbl] : w.user_id = id})

\* supabase.from(table).delete().eq('id', id)
DeleteRow(tbl, id) == [rows EXCEPT ![tbl] = {w \in @ : w.id # id}]

\* lines 89-97 and 126-134: the select of a table's rows
SelectStep(r, here, tbl, loop, next) ==
  /\ pc[r] = here
  /\ \E o \in Outcomes :
       /\ Log(r, Call("select", tbl, uid[r], NoKey, o))
       /\ faults' = faults + Cost(o)
       /\ IF o = "throw" THEN Respond(r, 500) /\ UNCHANGED pending
          ELSE IF o = "error" THEN Goto(r, next) /\ UNCHANGED pending
          ELSE /\ pending' = [pending EXCEPT ![r] = SelectWhere(tbl, uid[r])]
               /\ Goto(r, IF SelectWhere(tbl, uid[r]) = <<>> THEN next ELSE loop)
  /\ UNCHANGED <<rows, objects, users, inp, user, uid, listed, report, seq>>

\* the urls handed to deleteR2Object for one prediction (lines 101-109)
PredictionUrls(w) ==
  (IF w.input.k = "null" THEN <<>> ELSE <<w.input, MaskUrl(w.input)>>) \o w.outputs

\* the urls handed to deleteR2Object for one training (line 138)
TrainingUrls(w) == <<w.input>>

\* the leading urls that new URL() accepts
RECURSIVE Parsed(_)
Parsed(urls) ==
  IF urls = <<>> \/ ~Parses(Head(urls)) THEN <<>>
  ELSE <<Head(urls)>> \o Parsed(Tail(urls))

\* lines 207-215, once per url: bucket.delete(key) with its failure caught;
\* new URL() on a url that does not parse throws out of the pipeline
ObjectsStep(r, here, urls, next) ==
  /\ pc[r] = here
  /\ LET good == Parsed(urls)
         keys == {ObjectKey(good[i]) : i \in DOMAIN good}
     IN /\ \E failed \in SUBSET keys :
             /\ calls' = [calls EXCEPT ![r] =
                            @ \o [i \in DOMAIN good |->
                                    Call("objDelete", "", NoId, ObjectKey(good[i]),
                                         IF ObjectKey(good[i]) \in failed
                                         THEN "throw" ELSE "ok")]]
             /\ failed # {} => faults < MaxFaults
             /\ faults' = faults + (IF failed = {} THEN 0 ELSE 1)
             /\ objects' = objects \ (keys \ failed)
        /\ IF Len(good) < Len(urls) THEN Respond(r, 500) ELSE Goto(r, next)
  /\ UNCHANGED <<rows, users, inp, user, uid, pending, listed, report, seq>>

\* lines 112-119 and 141-148: the delete of the row, then the next row
RowStep(r, here, tbl, loop, next) ==
  /\ pc[r] = here
  /\ \E o \in Outcomes :
       /\ Log(r, CallRow("dbDeleteRow", tbl, Head(pending[r]).id, o))
       /\ faults' = faults + Cost(o)
       /\ rows' = IF o = "ok" THEN DeleteRow(tbl, Head(pending[r]).id) ELSE rows
       /\ IF o = "throw" THEN Respond(r, 500) /\ UNCHANGED pending
          ELSE /\ pending' = [pending EXCEPT ![r] = Tail(@)]
               /\ Goto(r, IF Tail(pending[r]) = <<>> THEN next ELSE loop)
  /\ UNCHANGED <<objects, users, inp, user, uid, listed, report, seq>>

\* mutant: the prediction rows are deleted without their objects
Del1SelectPredictionsRowsOnly(r) ==
  /\ pc[r] = "selPredictions1"
  /\ SelectStep(r, "selPredictions1", "replicate_predictions", "predictionRow1",
             "selTrainings1")

Del1SelectPredictions(r) ==
  /\ pc[r] = "selPredictions1"
  /\ SelectStep(r, "selPredictions1", "replicate_predictions", "predictionObjects1",
             "selTrainings1")

Del1PredictionObjects(r) ==
  /\ pc[r] = "predictionObjects1"
  /\ ObjectsStep(r, "predictionObjects1", PredictionUrls(Head(pending[r])),
                 "predictionRow1")

Del1PredictionRow(r) ==
  /\ pc[r] = "predictionRow1"
  /\ RowStep(r, "predictionRow1", "replicate_predictions", "predictionObjects1",
          "selTrainings1")

Del1SelectTrainings(r) ==
  /\ pc[r] = "selTrainings1"
  /\ SelectStep(r, "selTrainings1", "replicate_trainings", "trainingObjects1",
             "pushToken1")

Del1TrainingObjects(r) ==
  /\ pc[r] = "trainingObjects1"
  /\ ObjectsStep(r, "trainingObjects1", TrainingUrls(Head(pending[r])),
                 "trainingRow1")

Del1TrainingRow(r) ==
  /\ pc[r] = "trainingRow1"
  /\ RowStep(r, "trainingRow1", "replicate_trainings", "trainingObjects1",
          "pushToken1")

\* lines 154-191: a delete by user id whose returned error is only logged
PlainStep(r, here, tbl, next) ==
  /\ pc[r] = here
  /\ \E o \in Outcomes :
       /\ Log(r, Call("dbDelete", tbl, uid[r], NoKey, o))
       /\ faults' = faults + Cost(o)
       /\ rows' = IF o = "ok" THEN DeleteWhere(tbl, uid[r]) ELSE rows
       /\ IF o = "throw" THEN Respond(r, 500) ELSE Goto(r, next)
  /\ UNCHANGED <<objects, users, inp, user, uid, pending, listed, report, seq>>

Del1PushToken(r) ==
  /\ pc[r] = "pushToken1"
  /\ PlainStep(r, "pushToken1", "push_tokens", "credits1")

Del1Credits(r) ==
  /\ pc[r] = "credits1"
  /\ PlainStep(r, "credits1", "user_credits", "transactions1")

Del1Transactions(r) ==
  /\ pc[r] = "transactions1"
  /\ PlainStep(r, "transactions1", "transactions", "folder1")

\* lines 193-205: list the folder and delete the listed keys in one call;
\* any failure is caught and logged
Del1Folder(r) ==
  /\ pc[r] = "folder1"
  /\ \E o \in Outcomes \ {"error"} :
       /\ faults' = faults + Cost(o)
       /\ LET page == ListPage(objects, uid[r])
          IN \/ /\ o = "ok"
                /\ listed' = [listed EXCEPT ![r] = page]
                /\ objects' = objects \ page
                /\ calls' = [calls EXCEPT ![r] =
                               Append(@, Call("list", "", uid[r], NoKey, "ok"))
                                 \o KeySeq(page, {})]
             \/ /\ o = "throw"
                /\ UNCHANGED <<listed, objects>>
                /\ \/ Log(r, Call("list", "", uid[r], NoKey, "throw"))
                   \/ /\ page # {}
                      /\ calls' = [calls EXCEPT ![r] =
                                     Append(@, Call("list", "", uid[r], NoKey, "ok"))
                                       \o KeySeq(page, page)]
  /\ Goto(r, "auth1")
  /\ UNCHANGED <<rows, users, inp, user, uid, pending, report, seq>>

\* lines 217-226 and 54-59: supabase.auth.admin.deleteUser, then the response
Del1Auth(r) ==
  /\ pc[r] = "auth1"
  /\ \E o \in Outcomes :
       /\ Log(r, Call("deleteUser", "", uid[r], NoKey, DeleteUserResult(o, uid[r])))
       /\ faults' = faults + Cost(o)
       /\ users' = IF o = "ok" THEN users \ {uid[r]} ELSE users
       /\ Respond(r, IF o = "throw" THEN 500 ELSE 200)
  /\ UNCHANGED <<rows, objects, inp, user, uid, pending, listed, report, seq>>

\* the steps of a request that has arrived
Step(r) ==
    \/ Fetch2GetUser(r)
    \/ Del2Predictions(r)
    \/ Del2Trainings(r)
    \/ Del2PushToken(r)
    \/ Del2Credits(r)
    \/ Del2Transactions(r)
    \/ Del2List(r)
    \/ Del2Objects(r)
    \/ Del2Auth(r)
    \/ Fetch1GetUser(r)
    \/ Del1SelectPredictions(r)
    \/ Del1PredictionObjects(r)
    \/ Del1PredictionRow(r)
    \/ Del1SelectTrainings(r)
    \/ Del1TrainingObjects(r)
    \/ Del1TrainingRow(r)
    \/ Del1PushToken(r)
    \/ Del1Credits(r)
    \/ Del1Transactions(r)
    \/ Del1Folder(r)
    \/ Del1Auth(r)

Next ==
  \E r \in Reqs :
    \/ Fetch2Start(r)
    \/ Fetch1Start(r)
    \/ Step(r)

Spec == Init /\ [][Next]_vars

\* overlapping requests against backends that never fail
NextOverlap ==
  \E r \in Reqs :
    \/ Fetch2StartOverlap(r)
    \/ Fetch1StartOverlap(r)
    \/ Step(r)

SpecOverlap == InitReliable /\ [][NextOverlap]_vars

(* ------------------------------ properties ----------------------------- *)
Done(r) == pc[r] = "done"

IsDelete(c) == c.op \in {"dbDelete", "dbDeleteRow", "objDelete", "deleteUser"}
NoDeleteIssued(r) == \A i \in DOMAIN calls[r] : ~IsDelete(calls[r][i])

\* the calls of request r with operation op on table tbl ("" for no table)
CallsOf(r, op, tbl) ==
  {i \in DOMAIN calls[r] : calls[r][i].op = op /\ calls[r][i].tbl = tbl}
Attempted(r, op, tbl) == CallsOf(r, op, tbl) # {}
ResultsOf(r, op, tbl) == {calls[r][i].res : i \in CallsOf(r, op, tbl)}

\* case folding stated letter by letter
SameLetter(c, d) ==
  c = d \/ {c, d} \in {{"a", "A"}, {"b", "B"}, {"c", "C"}, {"d", "D"}}
FoldEq(s, t) ==
  Len(s) = Len(t) /\ \A i \in 1..Len(s) : SameLetter(s[i], t[i])

\* no bearer header, a token no identity was issued for, or a token whose
\* identity was gone when the request verified it
LacksValidToken(r) ==
  \/ inp[r].hdr.k # "bearer"
  \/ TokenOwner(inp[r].hdr.tok) \notin UserIds
  \/ TokenOwner(inp[r].hdr.tok) \notin users /\ user[r] = NoId

\* authentication and authorization both succeeded
Authorized(r) == uid[r] # NoId

StepNames == {"predictions", "trainings", "pushToken", "credits", "transactions",
              "r2Folder", "auth"}
StepValues == {"success", "error", "no files found"}
TableStep(tbl) ==
  CASE tbl = "replicate_predictions" -> "predictions"
    [] tbl = "replicate_trainings" -> "trainings"
    [] tbl = "push_tokens" -> "pushToken"
    [] tbl = "user_credits" -> "credits"
    [] tbl = "transactions" -> "transactions"
CallStep(c) ==
  IF c.op = "dbDelete" THEN TableStep(c.tbl)
  ELSE IF c.op = "deleteUser" THEN "auth" ELSE "r2Folder"

Reported(r, step, val) == step \in DOMAIN report[r] /\ report[r][step] = val

\* C1: a POST request without a valid bearer token is answered 401, whatever
\* its body, and issues no relational, object-store or identity delete.
C1_Unauthenticated401 ==
  \A r \in Reqs :
    (Done(r) /\ inp[r].method = "POST" /\ LacksValidToken(r))
      => (status[r] = 401 /\ NoDeleteIssued(r))

\* C2: with a valid token, a body subject id that differs from the verified
\* id after case folding (a missing or empty one included) is answered 403
\* and no delete is issued.
C2_Mismatch403 ==
  \A r \in Reqs :
    (/\ Done(r)
     /\ user[r] # NoId
     /\ inp[r].body.k \in {"nofield", "str"}
     /\ ~FoldEq(inp[r].body.s, user[r]))
      => (status[r] = 403 /\ NoDeleteIssued(r))

\* the outcome the object-store step of the second pipeline had
FolderOutcome(r) ==
  IF "throw" \in ResultsOf(r, "list", "") \/ "throw" \in ResultsOf(r, "objDelete", "")
  THEN "error"
  ELSE IF Attempted(r, "objDelete", "") THEN "success" ELSE "no files found"

\* the delete of table t is the one relational delete that returned an error,
\* and no call of the relational store or of the identity provider threw
OnlyTableFails(r, t) ==
  /\ inp[r].ver = 2
  /\ Done(r)
  /\ ResultsOf(r, "dbDelete", t) = {"error"}
  /\ \A u \in Tables \ {t} : ResultsOf(r, "dbDelete", u) \subseteq {"ok"}
  /\ "throw" \notin ResultsOf(r, "deleteUser", "")

AllStepsClean(r) ==
  /\ status[r] = 200
  /\ DOMAIN report[r] = StepNames
  /\ \A st \in StepNames : report[r][st] \in {"success", "no files found"}

\* C4: the same erasure request sent twice in succession, with no backend
\* outage, gets a report of clean steps both times.
C4_Idempotent ==
  (/\ Done(1) /\ Done(2)
   /\ inp[1].ver = 2
   /\ Authorized(1)
   /\ faults = 0)
    => (AllStepsClean(1) /\ AllStepsClean(2))

\* C5: when the folder holds more keys than one listing page and the
\* object-store step ends without a backend error, no key is left under the
\* prefix.
C5_PaginationComplete ==
  [][\A r \in Reqs :
       (/\ pc[r] \in {"r2Delete2", "folder1"}
        /\ pc'[r] \in {"auth2", "auth1"}
        /\ faults' = faults
        /\ Cardinality(UnderPrefix(objects, uid[r])) > PageSize)
         => UnderPrefix(objects', uid[r]) = {}]_vars

\* C6: once authentication and authorization succeeded the status is 200,
\* whatever the steps' outcomes.
C6_AuthorizedIs200 ==
  \A r \in Reqs : (Done(r) /\ Authorized(r)) => status[r] = 200

\* C7: the report of a 200 response of the second handler has exactly one
\* entry per step of the catalogue, each success, error or no files found.
C7_ReportComplete ==
  \A r \in Reqs :
    (Done(r) /\ inp[r].ver = 2 /\ status[r] = 200)
      => (/\ DOMAIN report[r] = StepNames
          /\ \A st \in StepNames : report[r][st] \in StepValues)

\* C8: a request whose method is not POST is answered 405 at once: no token
\* verification and no delete call is issued for it.
C8_MethodGuard ==
  \A r \in Reqs :
    (pc[r] # "idle" /\ inp[r].method # "POST")
      => (Done(r) /\ status[r] = 405 /\ calls[r] = <<>>)

\* C8 witness: a GET carrying a good token and a matching body got 405.
C8_Witness ==
  \E r \in Reqs :
    /\ Done(r)
    /\ inp[r].method = "GET"
    /\ inp[r].hdr = [k |-> "bearer", tok |-> "tA"]
    /\ inp[r].body = [k |-> "str", s |-> IdA]
    /\ status[r] = 405

\* the deletion pipeline of request r has been entered
PipelineStarted(r) ==
  \/ pc[r] \in {"predictions2", "selPredictions1"}
  \/ \E i \in DOMAIN calls[r] : calls[r][i].op \in {"dbDelete", "select"}

\* C9: with a valid token, a body subject id equal to the verified id up to
\* letter case is not answered 403 and the deletion pipeline is started.
C9_CaseInsensitive ==
  \A r \in Reqs :
    (/\ user[r] # NoId
     /\ inp[r].body.k = "str"
     /\ FoldEq(inp[r].body.s, user[r]))
      => (status[r] # 403 /\ PipelineStarted(r))

\* C9 witness: body 'Ab' for identity 'ab' ran the pipeline to its end.
C9_Witness ==
  \E r \in Reqs :
    /\ Done(r)
    /\ inp[r].body.s = <<"A", "b">>
    /\ user[r] = IdA
    /\ status[r] = 200
    /\ IdA \notin users

\* C10: a step whose backend call throws is recorded as failed in the report
\* and every step of the catalogue is still attempted.
C10_ThrowIsolated ==
  \A r \in Reqs :
    (Done(r) /\ inp[r].ver = 2 /\ Authorized(r))
      => (/\ \A i \in DOMAIN calls[r] :
               calls[r][i].res = "throw"
                 => Reported(r, CallStep(calls[r][i]), "error")
          /\ \A t \in Tables : Attempted(r, "dbDelete", t)
          /\ Attempted(r, "list", "")
          /\ Attempted(r, "deleteUser", ""))

\* the step of table t was attempted before call i of request r
TableStepBefore(r, t, i) ==
  \E j \in 1..(i - 1) :
    calls[r][j].tbl = t /\ calls[r][j].op \in {"dbDelete", "select"}

\* C11: the identity delete is issued only after the steps of all five tables
\* and the object-store erasure were attempted, and no relational or
\* object-store delete is issued after it.
C11_IdentityLast ==
  \A r \in Reqs : \A i \in DOMAIN calls[r] :
    calls[r][i].op = "deleteUser"
      => /\ \A t \in Tables : TableStepBefore(r, t, i)
         /\ \E j \in 1..(i - 1) : calls[r][j].op = "list"
         /\ \A j \in DOMAIN calls[r] : j > i => ~IsDelete(calls[r][j])

\* C11 witness: a finished erasure that deleted objects and then the identity.
C11_Witness ==
  \E r \in Reqs :
    /\ Done(r)
    /\ "ok" \in ResultsOf(r, "objDelete", "")
    /\ "ok" \in ResultsOf(r, "deleteUser", "")
    /\ calls[r][Len(calls[r])].op = "deleteUser"

\* C12: when the listing of the prefix fails, no object delete is issued
\* after it and the second pipeline reports the object-store step 'error'.
C12_ListFailureDeletesNothing ==
  \A r \in Reqs : \A i \in DOMAIN calls[r] :
    (calls[r][i].op = "list" /\ calls[r][i].res = "throw")
      => /\ \A j \in DOMAIN calls[r] : j > i => calls[r][j].op # "objDelete"
         /\ inp[r].ver = 2 => Reported(r, "r2Folder", "error")

\* C12 witness: the listing failed over a folder that held keys; the keys
\* are still there and the identity step ran.
C12_Witness ==
  \E r \in Reqs :
    /\ Done(r)
    /\ inp[r].ver = 2
    /\ ResultsOf(r, "list", "") = {"throw"}
    /\ UnderPrefix(objects, uid[r]) # {}
    /\ Reported(r, "r2Folder", "error")
    /\ Reported(r, "auth", "success")

\* nothing of subject id is left in any backend
Erased(id) ==
  /\ \A t \in Tables : \A w \in rows[t] : w.user_id # id
  /\ UnderPrefix(objects, id) = {}
  /\ id \notin users

\* C13: two overlapping erasure requests of the second handler for the same
\* subject, with no backend failure: when both have finished nothing of the
\* subject is left and neither was answered 500.
C13_OverlapErases ==
  \A r \in Reqs :
    (/\ Done(1) /\ Done(2)
     /\ inp[r].ver = 2
     /\ Authorized(r))
      => (Erased(uid[r]) /\ status[1] # 500 /\ status[2] # 500)

\* C13, folders of at most one listing page: part of the claim that holds
C13_OverlapErasesSmallFolder ==
  \A r \in Reqs :
    (/\ Done(1) /\ Done(2)
     /\ inp[r].ver = 2
     /\ Authorized(r)
     /\ UnderPrefix(objects, uid[r]) = {})
      => (Erased(uid[r]) /\ status[1] # 500 /\ status[2] # 500)

\* C14: within one request the report only grows and an entry, once written,
\* is never changed by a later action; an action writes at most one entry.
C14_ReportWrittenOnce ==
  [][\A r \in Reqs :
       /\ \A st \in DOMAIN report[r] :
            st \in DOMAIN report'[r] /\ report'[r][st] = report[r][st]
       /\ Cardinality(DOMAIN report'[r]) <= Cardinality(DOMAIN report[r]) + 1
       /\ \A st \in (DOMAIN report'[r]) \ DOMAIN report[r] :
            st \in StepNames => report'[r][st] \in StepValues]_vars

\* a request that recorded all seven steps, one after the other
C14_Witness ==
  \E r \in Reqs :
    /\ Done(r)
    /\ StepNames \subseteq DOMAIN report[r]
    /\ Reported(r, "predictions", "error")
    /\ Reported(r, "auth", "success")

\* the keys of the objects a row refers to: for a prediction the input, the
\* mask derived from the input and the outputs; for a training the input
\* images
ReferencedKeys(tbl, w) ==
  (IF w.input.k = "null" THEN {} ELSE {w.input.path})
    \cup (IF w.input.k # "null" /\ tbl = "replicate_predictions"
          THEN {<<w.input.path[1], w.input.path[2], w.input.path[3] + 1>>}
          ELSE {})
    \cup {w.outputs[i].path : i \in DOMAIN w.outputs}

\* request r is about to delete the row at the head of its fetched rows
DeletesRow(r) ==
  /\ pc[r] \in {"predictionRow1", "trainingRow1"}
  /\ calls'[r] # calls[r]

\* C15, first half: when the relational delete of a fetched row is issued,
\* a delete has been issued for every object the row refers to.
C15_ObjectsBeforeRow ==
  \A r \in Reqs :
    DeletesRow(r) =>
      /\ calls'[r][Len(calls'[r])].op = "dbDeleteRow"
      /\ calls'[r][Len(calls'[r])].row = Head(pending[r]).id
      /\ \A k \in ReferencedKeys(calls'[r][Len(calls'[r])].tbl, Head(pending[r])) :
           \E j \in DOMAIN calls[r] :
             /\ calls[r][j].op = "objDelete"
             /\ calls[r][j].key = k
             /\ \E i \in 1..(j - 1) : calls[r][i].op = "select"

\* C15, second half: a fetch of a table's rows that fails is followed by no
\* object delete of that step and by no delete of a row of that table.
C15_FailedFetchDeletesNothing ==
  \A r \in Reqs : \A i \in DOMAIN calls[r] :
    (calls[r][i].op = "select" /\ calls[r][i].res # "ok")
      => /\ \A j \in DOMAIN calls[r] :
              calls[r][j].op = "dbDeleteRow" => calls[r][j].tbl # calls[r][i].tbl
         /\ (i + 1) \in DOMAIN calls[r]
              => calls[r][i + 1].op \in {"select", "dbDelete"}

C16_EmptyFolderAnnotated ==
  \A r \in Reqs :
    (/\ inp[r].ver = 2
     /\ ResultsOf(r, "list", "") = {"ok"}
     /\ listed[r] = {})
      => /\ ~Attempted(r, "objDelete", "")
         /\ Reported(r, "r2Folder", "no files found")
         /\ ~Reported(r, "r2Folder", "error")
         /\ ~Reported(r, "r2Folder", "success")
         /\ pc[r] \in {"auth2", "done"}

\* a finished request whose folder was empty
C16_Witness ==
  \E r \in Reqs :
    /\ Done(r)
    /\ inp[r].ver = 2
    /\ ResultsOf(r, "list", "") = {"ok"}
    /\ listed[r] = {}
    /\ Reported(r, "r2Folder", "no files found")
    /\ status[r] = 200

\* request r takes a step
Acting(r) == pc'[r] # pc[r]

\* the step leaves the rows and the identities of every subject but id alone
OthersKept(id) ==
  /\ \A t \in Tables : \A w \in rows[t] : w.user_id # id => w \in rows'[t]
  /\ \A t \in Tables : rows'[t] \subseteq rows[t]
  /\ \A u \in users : u # id => u \in users'
  /\ users' \subseteq users
  /\ objects' \subseteq objects

\* the keys referred to by the prediction and training rows of subject id
ReferencedBy(id) ==
  UNION {ReferencedKeys(t, w) :
           t \in {"replicate_predictions", "replicate_trainings"},
           w \in {x \in rows["replicate_predictions"] \cup rows["replicate_trainings"] :
                    x.user_id = id}}

\* C17 as stated: a step of a request authorized for S changes no row of
\* another user id, no object whose key does not begin with 'S/', and no
\* other identity record.
C17_FrameByPrefix ==
  [][\A r \in Reqs :
       (Acting(r) /\ Authorized(r))
         => /\ OthersKept(uid[r])
            /\ \A k \in objects \ objects' : k[1] = uid[r]]_vars

\* C17, amended: a step of a request authorized for S changes no row of
\* another user id and no other identity record, and deletes only objects
\* whose key begins with 'S/' or that a prediction or training row of S
\* refers to.
C17_FrameByPrefixOrReference ==
  [][\A r \in Reqs :
       (Acting(r) /\ Authorized(r))
         => /\ OthersKept(uid[r])
            /\ \A k \in objects \ objects' :
                 k[1] = uid[r] \/ k \in ReferencedBy(uid[r])]_vars

\* an erasure of 'ab' that deleted rows, objects in and outside 'ab/' and the
\* identity, with everything of 'cd' still in place
C17_Witness ==
  \E r \in Reqs :
    /\ Done(r) /\ status[r] = 200
    /\ uid[r] = IdA
    /\ \E i \in DOMAIN calls[r] :
         /\ calls[r][i].op = "objDelete" /\ calls[r][i].res = "ok"
         /\ calls[r][i].key[1] = IdP
    /\ Key(IdP, 1, 0) \notin objects
    /\ \A t \in Tables : \A w \in rows[t] : w.user_id = IdC
    /\ \A t \in Tables : rows[t] # {}
    /\ UnderPrefix(objects, IdC) # {}
    /\ users = {IdC}

\* the calls that carry a subject id: the filter of a relational delete or
\* select, the prefix of a listing, the identity delete
KeyedById(c) == c.op \in {"dbDelete", "select", "list", "deleteUser"}

\* C18, the calls in the log: every call of an authorized request that
\* carries a subject id carries the lower-cased verified id, and the second
\* pipeline deletes objects under that id's prefix only.
C18_CallsKeyedByVerifiedId ==
  \A r \in Reqs : \A i \in DOMAIN calls[r] :
    Authorized(r) =>
      /\ KeyedById(calls[r][i]) => calls[r][i].id = ToLower(user[r])
      /\ (inp[r].ver = 2 /\ calls[r][i].op = "objDelete")
           => calls[r][i].key[1] = ToLower(user[r])

\* C18, the first pipeline's deletes by row id: the row was fetched by the
\* lower-cased verified id
C18_RowsOfVerifiedId ==
  \A r \in Reqs : DeletesRow(r) => Head(pending[r]).user_id = ToLower(user[r])

\* C18: every delete call of an authorized request is keyed by the
\* lower-cased id of the verified identity, never by the body's spelling of
\* it and never by another id.
C18_KeyedByVerifiedId ==
  []C18_CallsKeyedByVerifiedId /\ [][C18_RowsOfVerifiedId]_vars

\* an erasure asked for as 'Ab' and carried out on 'ab'
C18_Witness ==
  \E r \in Reqs :
    /\ Done(r) /\ status[r] = 200
    /\ inp[r].body.s = <<"A", "b">>
    /\ user[r] = IdA
    /\ \E i \in DOMAIN calls[r] :
         /\ calls[r][i].op = "dbDelete" /\ calls[r][i].res = "ok"
         /\ calls[r][i].id = IdA
    /\ "ok" \in ResultsOf(r, "list", "")
    /\ "ok" \in ResultsOf(r, "deleteUser", "")
====
